---- MODULE Spec2Model ----
(***************************************************************************)
(* Crop-to-model dispatch and classification pipeline of the crop disease  *)
(* detection apps: src/multi_crop_app.py (six crops, Gemini sidebar) and   *)
(* src/unnamed/part_000 (grapes only, OpenRouter advice).                  *)
(*                                                                         *)
(* A Streamlit script is re-executed top to bottom after every user        *)
(* interaction.  Widget values and st.session_state persist per session,   *)
(* the st.cache_resource store is shared by the whole process, everything  *)
(* else is local to one script run.  An uncaught Python exception ends     *)
(* the run it is raised in; the session itself stays usable.               *)
(***************************************************************************)
EXTENDS Integers, Sequences, FiniteSets, TLC

None == "None"

(***************************************************************************)
(* Bounds of the model.                                                    *)
(***************************************************************************)
\* Uploaded images are told apart by a content value 0..MaxPixel.
MaxPixel == 2
\* Serialized heads found on disk have 3..MaxFileClasses output rows.
MaxFileClasses == 5
\* Browser sessions served by the one process.
MaxSessions == 2
\* In the concurrent specification the sessions choose among the first
\* MaxConcCrops options of the selectbox.
MaxConcCrops == 2

(***************************************************************************)
(* Model registry (multi_crop_app.py, model_info).                         *)
(***************************************************************************)
\* model.fc.in_features of resnet50
NumFtrs == 2048

CropOptions == <<"Grapes", "Potato", "Peanut", "Tomato", "Rice", "Cashew">>

FullFields ==
    {"cause", "severity", "symptoms", "conditions_favoring", "disease_cycle",
     "impact", "season", "organic_options", "chemical_options",
     "recommended_varieties", "next_steps", "external_links"}

\* The optional fields the rendering code asks for.
ListFields == {"organic_options", "chemical_options", "recommended_varieties",
               "next_steps", "external_links"}
TextFields == {"cause", "symptoms", "severity", "impact", "season",
               "conditions_favoring", "disease_cycle", "mitigation",
               "Fertilizer", "Fertilizer_Calendar"}

\* A remedy record without any field.
EntryBlank(sev) == [shape |-> "dict", keys |-> {}, empty |-> {}, severity |-> sev]

\* A structured remedy of the registry: every row of model_info carries the
\* same twelve keys, all non-empty; sev is the severity text before the colon.
Entry(sev) == [shape |-> "dict", keys |-> FullFields, empty |-> {}, severity |-> sev]

model_info ==
    [c \in {"Grapes", "Potato", "Peanut", "Tomato", "Rice", "Cashew"} |->
      CASE c = "Grapes" ->
             [model_path |-> "resnet50_grapes.pt",
              labels |-> <<"Black Rot", "ESCA", "Healthy", "Leaf Blight">>,
              num_classes |-> 4,
              fc_type |-> "single_linear",
              remedies |-> ("Black Rot" :> Entry(<<"High">>))
                        @@ ("ESCA" :> Entry(<<"Medium", "to", "High">>))
                        @@ ("Healthy" :> Entry(<<"N/A">>))
                        @@ ("Leaf Blight" :> Entry(<<"Medium">>))]
        [] c = "Potato" ->
             [model_path |-> "resnet50_potato.pt",
              labels |-> <<"Potato___Early_blight", "Potato___Late_blight",
                           "Potato___healthy">>,
              num_classes |-> 3,
              fc_type |-> "single_linear",
              remedies |-> ("Potato___Early_blight" :> Entry(<<"Medium">>))
                        @@ ("Potato___Late_blight" :> Entry(<<"High">>))
                        @@ ("Potato___healthy" :> Entry(<<"N/A">>))]
        [] c = "Peanut" ->
             [model_path |-> "resnet50_peanut.pt",
              labels |-> <<"Peanut_rust", "Peanut_nutrition_deficiency",
                           "Peanut_leaf_spot", "Peanut_healthy_leaf">>,
              num_classes |-> 4,
              fc_type |-> "custom_sequential_peanut",
              remedies |-> ("Peanut_rust" :> Entry(<<"High">>))
                        @@ ("Peanut_nutrition_deficiency" :>
                                Entry(<<"Varies", "(Low", "to", "Medium)">>))
                        @@ ("Peanut_leaf_spot" :> Entry(<<"Medium", "to", "High">>))
                        @@ ("Peanut_healthy_leaf" :> Entry(<<"N/A">>))]
        [] c = "Tomato" ->
             [model_path |-> "resnet50_tomato.pt",
              labels |-> <<"Tomato__Tomato_mosaic_virus", "Tomato___Bacterial_spot",
                           "Tomato___Tomato_Yellow_Leaf_Curl_Virus", "Tomato__blight">>,
              num_classes |-> 4,
              fc_type |-> "single_linear",
              remedies |-> ("Tomato__Tomato_mosaic_virus" :>
                                Entry(<<"Medium", "to", "High">>))
                        @@ ("Tomato___Bacterial_spot" :> Entry(<<"Medium">>))
                        @@ ("Tomato___Tomato_Yellow_Leaf_Curl_Virus" :> Entry(<<"High">>))
                        @@ ("Tomato__blight" :> Entry(<<"Medium", "to", "High">>))]
        [] c = "Rice" ->
             [model_path |-> "resnet50_rice.pt",
              labels |-> <<"Bacterialblight", "Brownspot", "Leafsmut">>,
              num_classes |-> 3,
              fc_type |-> "custom_sequential_new_crop",
              remedies |-> ("Bacterialblight" :> Entry(<<"Medium", "to", "High">>))
                        @@ ("Brownspot" :> Entry(<<"Medium">>))
                        @@ ("Leafsmut" :> Entry(<<"Low", "to", "Medium">>))]
        [] OTHER ->
             [model_path |-> "resnet50_cashew.pt",
              labels |-> <<"Cashew anthracnose", "Cashew gummosis", "Cashew healthy",
                           "Cashew leaf miner", "Cashew red rust">>,
              num_classes |-> 5,
              fc_type |-> "single_linear",
              remedies |-> ("Cashew anthracnose" :> Entry(<<"High">>))
                        @@ ("Cashew gummosis" :> Entry(<<"Medium", "to", "High">>))
                        @@ ("Cashew healthy" :> Entry(<<"N/A">>))
                        @@ ("Cashew leaf miner" :> Entry(<<"Medium">>))
                        @@ ("Cashew red rust" :> Entry(<<"Low", "to", "Medium">>))]]

(***************************************************************************)
(* The single-crop app (part_000).                                         *)
(***************************************************************************)
NUM_CLASSES == 4

class_names == <<"Black Rot", "ESCA", "Healthy", "Leaf Blight">>

GrapeInfo == [shape |-> "dict", keys |-> {"cause", "remedy", "fertilizer", "tips"},
              empty |-> {}, severity |-> <<>>]

\* The table with the entry of the last class left out.
disease_info_short ==
    ("Black Rot" :> GrapeInfo) @@ ("ESCA" :> GrapeInfo) @@ ("Healthy" :> GrapeInfo)

disease_info ==
    ("Black Rot" :> GrapeInfo) @@ ("ESCA" :> GrapeInfo)
    @@ ("Healthy" :> GrapeInfo) @@ ("Leaf Blight" :> GrapeInfo)

Range(seq) == {seq[i] : i \in DOMAIN seq}

(***************************************************************************)
(* Architecture builder: load_and_configure_model / load_model.            *)
(***************************************************************************)
FcTypes == {"single_linear", "custom_sequential_peanut", "custom_sequential_new_crop"}

Linear(i, o) == [layer |-> "Linear", in |-> i, out |-> o, p |-> 0]
ReLU == [layer |-> "ReLU", in |-> 0, out |-> 0, p |-> 0]
\* A dropout layer that ignores the probability it is given.
DropoutHalf(tenths) == [layer |-> "Dropout", in |-> 0, out |-> 0, p |-> 5]

\* nn.Dropout(p), p in tenths
Dropout(tenths) == [layer |-> "Dropout", in |-> 0, out |-> 0, p |-> tenths]

\* No head: stands for the ValueError of the final else branch.
NoHead == [seq |-> FALSE, layers |-> <<>>]

\* A head whose last layer has one output row too many.
MakeHeadExtraRow(fc_layer_type, num_classes_for_model) ==
    CASE fc_layer_type = "single_linear" ->
           [seq |-> FALSE, layers |-> <<Linear(NumFtrs, num_classes_for_model + 1)>>]
      [] fc_layer_type = "custom_sequential_peanut" ->
           [seq |-> TRUE,
            layers |-> <<Linear(NumFtrs, 512), ReLU, Dropout(3),
                         Linear(512, num_classes_for_model + 1)>>]
      [] fc_layer_type = "custom_sequential_new_crop" ->
           [seq |-> TRUE,
            layers |-> <<Linear(NumFtrs, 256), ReLU, Dropout(4),
                         Linear(256, num_classes_for_model + 1)>>]
      [] OTHER -> NoHead

\* A dispatch that lacks the third branch.
MakeHeadTwoBranches(fc_layer_type, num_classes_for_model) ==
    CASE fc_layer_type = "single_linear" ->
           [seq |-> FALSE, layers |-> <<Linear(NumFtrs, num_classes_for_model)>>]
      [] fc_layer_type = "custom_sequential_peanut" ->
           [seq |-> TRUE,
            layers |-> <<Linear(NumFtrs, 512), ReLU, Dropout(3),
                         Linear(512, num_classes_for_model)>>]
      [] OTHER -> NoHead

\* The head that replaces model.fc.  seq tells nn.Sequential from a bare
\* nn.Linear.
MakeHead(fc_layer_type, num_classes_for_model) ==
    CASE fc_layer_type = "single_linear" ->
           [seq |-> FALSE, layers |-> <<Linear(NumFtrs, num_classes_for_model)>>]
      [] fc_layer_type = "custom_sequential_peanut" ->
           [seq |-> TRUE,
            layers |-> <<Linear(NumFtrs, 512), ReLU, Dropout(3),
                         Linear(512, num_classes_for_model)>>]
      [] fc_layer_type = "custom_sequential_new_crop" ->
           [seq |-> TRUE,
            layers |-> <<Linear(NumFtrs, 256), ReLU, Dropout(4),
                         Linear(256, num_classes_for_model)>>]
      [] OTHER -> NoHead

\* The parameter entries of a head as a state dict names them: the position
\* inside the Sequential (0 for a bare Linear, "fc.weight") and the shape.
ParamShapes(head) ==
    {<<IF head.seq THEN i ELSE 0, head.layers[i].in, head.layers[i].out>> :
        i \in {j \in DOMAIN head.layers : head.layers[j].layer = "Linear"}}

\* What torch.load may find at a weights path: no file, or the state dict of
\* a network saved with one of the head structures.
FileContents ==
    {[exists |-> FALSE, params |-> {}]} \cup
    {[exists |-> TRUE, params |-> ParamShapes(MakeHead(t, n))] :
        t \in FcTypes, n \in 3..MaxFileClasses}

\* model.load_state_dict is strict: keys and shapes must match exactly.
StateDictMatches(head, state_dict) == ParamShapes(head) = state_dict.params

OutFeatures(head) == head.layers[Len(head.layers)].out

\* load_and_configure_model as a function of its arguments and of what is
\* found at the path: the error it raises, the head it made, whether the
\* file was read.
Builder(fc_layer_type, num_classes_for_model, state_dict) ==
    LET head == MakeHead(fc_layer_type, num_classes_for_model)
    IN IF head = NoHead
       THEN [error |-> "ValueError", fc |-> NoHead, read |-> FALSE, eval |-> FALSE]
       ELSE IF ~state_dict.exists
       THEN [error |-> "FileNotFoundError", fc |-> head, read |-> TRUE, eval |-> FALSE]
       ELSE IF ~StateDictMatches(head, state_dict)
       THEN [error |-> "RuntimeError", fc |-> head, read |-> TRUE, eval |-> FALSE]
       ELSE [error |-> None, fc |-> head, read |-> TRUE, eval |-> TRUE]

(***************************************************************************)
(* Preprocessing and inference.                                            *)
(***************************************************************************)
Modes == {"RGB", "RGBA", "L"}
Images == [mode : Modes, px : 0..MaxPixel]
\* The uploader holds no file.
NoImage == [mode |-> "None", px |-> 0]

\* An image opened and left in the mode it was stored in.
ConvertNone(image) == image

\* Image.open(...).convert('RGB')
ConvertRGB(image) == [image EXCEPT !.mode = "RGB"]

\* The transform without the unsqueeze(0) that adds the batch dimension.
TransformNoBatch(image) ==
    [shape |-> <<IF image.mode = "RGB" THEN 3 ELSE IF image.mode = "RGBA" THEN 4 ELSE 1,
                 224, 224>>,
     mean |-> <<485, 456, 406>>, std |-> <<229, 224, 225>>, px |-> image.px]

\* transforms.Compose([Resize((224, 224)), ToTensor(), Normalize(...)])
\* followed by unsqueeze(0)
Transform(image) ==
    [shape |-> <<1, IF image.mode = "RGB" THEN 3 ELSE IF image.mode = "RGBA" THEN 4 ELSE 1,
                 224, 224>>,
     mean |-> <<485, 456, 406>>, std |-> <<229, 224, 225>>, px |-> image.px]

\* model(input_tensor): the network is an opaque collaborator; it is stood
\* for by a fixed function of the loaded head and the tensor that yields one
\* score per output row of the head.  The scores depend on the running
\* statistics of the batch-norm layers, which a loaded model has at stats 0.
Forward(m, tensor) ==
    [i \in 1..OutFeatures(m.fc) |->
        (tensor.px * (i + OutFeatures(m.fc)) + m.stats * i) % 4]

\* torch.argmax(output, 1).item() / torch.max(outputs, 1): a left-to-right
\* scan that replaces the running best only on a strictly greater score;
\* the result is the 0-based index.
RECURSIVE ArgmaxFrom(_, _, _)
ArgmaxFrom(output, i, best) ==
    IF i > Len(output) THEN best - 1
    ELSE ArgmaxFrom(output, i + 1, IF output[i] > output[best] THEN i ELSE best)

\* The scan that also replaces the running best on an equal score, which
\* yields the last maximal index.
RECURSIVE ArgmaxLastFrom(_, _, _)
ArgmaxLastFrom(output, i, best) ==
    IF i > Len(output) THEN best - 1
    ELSE ArgmaxLastFrom(output, i + 1, IF output[i] >= output[best] THEN i ELSE best)

ArgmaxLast(output) == ArgmaxLastFrom(output, 2, 1)

Argmax(output) == ArgmaxFrom(output, 2, 1)

\* Python list indexing with a non-negative index; None stands for IndexError.
ListIndex(list, k) == IF k >= 0 /\ k < Len(list) THEN list[k + 1] ELSE None

\* Lines 648-649 (part_000: 73-74): arg-max, then the label at that index.
Classify(label_list, output) == ListIndex(label_list, Argmax(output))

(***************************************************************************)
(* State.                                                                  *)
(***************************************************************************)
Sessions == 1..MaxSessions

VARIABLES
    app,            \* the script the process serves: "multi" or "single"
    keySource,      \* where GEMINI_API_KEY is found: "env", "secrets",
                    \* "nokey" (secrets file without the key), "nofile"
    cache,          \* st.cache_resource store: argument tuple -> model
    lock,           \* holder of the cache's compute lock, 0 when free
    builds,         \* per cache key, the builds that ran to completion
    pc,             \* per session, the position of its script run
    crop,           \* value of the crop selectbox
    uploaded,       \* value of the file uploader: an image or NoImage
    toggle,         \* value of the widget keyed ai_advice_toggle
    session_state,  \* the st.session_state fields of the sidebar
    local,          \* the model object a build is working on
    model,          \* the script global model of the run
    prediction,     \* the script global prediction of the run
    log,            \* what the run has done and displayed so far
    err,            \* the uncaught exception that ended the run, or None
    camera,         \* value of the camera input: a capture or NoImage
    input_tensor,   \* the script global input_tensor (img_tensor) of the run
    afterFailure,   \* the run was started by an interaction unrelated to the
                    \* advice, right after a run whose initial advice request
                    \* failed
    speech,         \* the speech threads of the process: how many are
                    \* alive, and whether one has caught an engine failure
    unit            \* one function of the script applied to a crafted input

vars == <<app, keySource, cache, lock, builds, pc, crop, uploaded, toggle,
          session_state, local, model, prediction, log, err, camera, input_tensor,
          afterFailure, speech, unit>>

\* st.cache_resource keys an entry by the arguments of the call.
KeyOf(c) == <<model_info[c].model_path, model_info[c].num_classes, model_info[c].fc_type>>

Keys == {KeyOf(c) : c \in DOMAIN model_info} \cup {<<>>}

\* No model: an empty slot of the store, an unset variable.
NoModel == [key |-> <<>>, fc |-> NoHead, loaded |-> FALSE, training |-> FALSE,
            stats |-> 0, n |-> 0]

\* No tensor: the run has not preprocessed an image.
NoTensor == [shape |-> <<>>, mean |-> <<>>, std |-> <<>>, px |-> 0]

EmptySessionState ==
    [has_messages |-> FALSE,
     sidebar_messages |-> <<>>,
     ai_advice_initial_generated |-> FALSE,
     last_prediction_for_ai |-> None,
     sidebar_follow_up_input_value |-> ""]

\* No speech thread has been started.
NoSpeech == [running |-> 0, warned |-> FALSE]

NoUnit == [fn |-> "none", done |-> FALSE]

InitApp ==
    /\ app \in {"multi", "single"}
    /\ keySource \in IF app = "multi" THEN {"env", "secrets", "nokey", "nofile"}
                     ELSE {"nokey"}
    /\ cache = [k \in Keys |-> NoModel]
    /\ lock = 0
    /\ builds = [k \in Keys |-> 0]
    /\ pc = [s \in Sessions |-> "closed"]
    /\ crop = [s \in Sessions |-> CropOptions[1]]
    /\ uploaded = [s \in Sessions |-> NoImage]
    /\ toggle = [s \in Sessions |-> FALSE]
    /\ session_state = [s \in Sessions |-> EmptySessionState]
    /\ local = [s \in Sessions |-> NoModel]
    /\ model = [s \in Sessions |-> NoModel]
    /\ prediction = [s \in Sessions |-> None]
    /\ log = [s \in Sessions |-> <<>>]
    /\ err = [s \in Sessions |-> None]
    /\ camera = [s \in Sessions |-> NoImage]
    /\ input_tensor = [s \in Sessions |-> NoTensor]
    /\ afterFailure = [s \in Sessions |-> FALSE]
    /\ speech = NoSpeech

Init == InitApp /\ unit = NoUnit

(***************************************************************************)
(* A script run starts from the top with fresh globals.                    *)
(***************************************************************************)
FirstStep == IF app = "multi" THEN "lookup" ELSE "load"

StartRun(s) ==
    /\ pc' = [pc EXCEPT ![s] = FirstStep]
    /\ model' = [model EXCEPT ![s] = NoModel]
    /\ prediction' = [prediction EXCEPT ![s] = None]
    /\ log' = [log EXCEPT ![s] = <<>>]
    /\ err' = [err EXCEPT ![s] = None]
    /\ input_tensor' = [input_tensor EXCEPT ![s] = NoTensor]

\* An uncaught exception: Streamlit shows it and the run is over.  The
\* compute lock is held in a with block, so it is released on the way out.
Raise(s, e) ==
    /\ pc' = [pc EXCEPT ![s] = "idle"]
    /\ err' = [err EXCEPT ![s] = e]
    /\ log' = [log EXCEPT ![s] = Append(@, "exception")]
    /\ lock' = IF lock = s THEN 0 ELSE lock
    /\ local' = [local EXCEPT ![s] = NoModel]

(***************************************************************************)
(* User interactions; each one reruns the script.                          *)
(***************************************************************************)
Connect(s) ==
    /\ pc[s] = "closed"
    /\ StartRun(s)
    /\ afterFailure' = [afterFailure EXCEPT ![s] = FALSE]
    /\ UNCHANGED <<unit, speech, camera, app, keySource, cache, lock, builds, crop, uploaded, toggle,
                   session_state, local>>

SelectCrop(s, c) ==
    /\ pc[s] = "idle"
    /\ app = "multi"
    /\ c # crop[s]
    /\ crop' = [crop EXCEPT ![s] = c]
    /\ StartRun(s)
    /\ afterFailure' = [afterFailure EXCEPT ![s] = FALSE]
    /\ UNCHANGED <<unit, speech, camera, app, keySource, cache, lock, builds, uploaded, toggle,
                   session_state, local>>

UploadImage(s, image) ==
    /\ pc[s] = "idle"
    /\ image # uploaded[s]
    /\ uploaded' = [uploaded EXCEPT ![s] = image]
    /\ StartRun(s)
    /\ afterFailure' = [afterFailure EXCEPT ![s] = FALSE]
    /\ UNCHANGED <<unit, speech, camera, app, keySource, cache, lock, builds, crop, toggle,
                   session_state, local>>

\* Line 637: a picture taken with the camera input, which exists while the
\* uploader is empty; the browser hands over an RGB JPEG.
CameraImages == {image \in Images : image.mode = "RGB"}

Capture(s, image) ==
    /\ pc[s] = "idle"
    /\ app = "multi"
    /\ "camera_input" \in Range(log[s])
    /\ image # camera[s]
    /\ camera' = [camera EXCEPT ![s] = image]
    /\ StartRun(s)
    /\ afterFailure' = [afterFailure EXCEPT ![s] = FALSE]
    /\ UNCHANGED <<unit, speech, app, keySource, cache, lock, builds, crop, uploaded, toggle,
                   session_state, local>>

\* Any other interaction (a checklist box, the rerun command).
Rerun(s) ==
    /\ pc[s] = "idle"
    /\ StartRun(s)
    /\ afterFailure' = [afterFailure EXCEPT ![s] = toggle[s] /\ "ai_error" \in Range(log[s])]
    /\ UNCHANGED <<unit, speech, camera, app, keySource, cache, lock, builds, crop, uploaded, toggle,
                   session_state, local>>

\* The toggle can be flipped when the last run rendered it.
ToggleAdvice(s) ==
    /\ pc[s] = "idle"
    /\ "toggle" \in Range(log[s])
    /\ toggle' = [toggle EXCEPT ![s] = ~@]
    /\ StartRun(s)
    /\ afterFailure' = [afterFailure EXCEPT ![s] = FALSE]
    /\ UNCHANGED <<unit, speech, camera, app, keySource, cache, lock, builds, crop, uploaded,
                   session_state, local>>

(***************************************************************************)
(* The script, top to bottom.                                              *)
(***************************************************************************)
\* The arguments of the cached builder call of the run.
CurPath(s) == IF app = "multi" THEN model_info[crop[s]].model_path ELSE "resnet50_grapes.pt"
CurNumClasses(s) == IF app = "multi" THEN model_info[crop[s]].num_classes ELSE NUM_CLASSES
CurFcType(s) == IF app = "multi" THEN model_info[crop[s]].fc_type ELSE "single_linear"
CurKey(s) == IF app = "multi" THEN <<CurPath(s), CurNumClasses(s), CurFcType(s)>> ELSE <<>>
CurLabels(s) == IF app = "multi" THEN model_info[crop[s]].labels ELSE class_names
CurRemedies(s) == IF app = "multi" THEN model_info[crop[s]].remedies ELSE disease_info

\* model_info[crop]: a dict subscript; a missing key is Python's KeyError.
RegistryLookup(crop_id) ==
    IF crop_id \in DOMAIN model_info
    THEN [error |-> None, key |-> KeyOf(crop_id)]
    ELSE [error |-> "KeyError", key |-> <<>>]

\* Lines 620-624: the registry rows are read by subscript.
Lookup(s) ==
    /\ pc[s] = "lookup"
    /\ IF RegistryLookup(crop[s]).error = None
       THEN /\ pc' = [pc EXCEPT ![s] = "load"]
            /\ log' = [log EXCEPT ![s] = Append(@, "lookup")]
            /\ UNCHANGED <<err, lock, local>>
       ELSE Raise(s, "KeyError")
    /\ UNCHANGED <<unit, speech, afterFailure, camera, input_tensor,
                   app, keySource, cache, builds, crop, uploaded, toggle,
                   session_state, model, prediction>>

\* A read of the store by the value key of the call.
CacheReadMiss(store, k) == NoModel

CacheRead(store, k) == store[k]

\* A call that is served whatever model the store holds, for any arguments.
LoadIgnoresKey(s) ==
    /\ pc[s] = "load"
    /\ IF \E k \in Keys : cache[k] # NoModel
       THEN \E k \in Keys :
               /\ cache[k] # NoModel
               /\ model' = [model EXCEPT ![s] = cache[k]]
               /\ log' = [log EXCEPT ![s] = Append(@, "cache_hit")]
               /\ pc' = [pc EXCEPT ![s] = "predict"]
       ELSE /\ pc' = [pc EXCEPT ![s] = "miss"]
            /\ UNCHANGED <<model, log>>
    /\ UNCHANGED <<unit, speech, afterFailure, camera, input_tensor,
                   app, keySource, cache, lock, builds, crop, uploaded, toggle,
                   session_state, local, prediction, err>>

\* The call of the cached builder: the store is read without the lock.
Load(s) ==
    /\ pc[s] = "load"
    /\ IF CacheRead(cache, CurKey(s)) # NoModel
       THEN /\ model' = [model EXCEPT ![s] = CacheRead(cache, CurKey(s))]
            /\ log' = [log EXCEPT ![s] = Append(@, "cache_hit")]
            /\ pc' = [pc EXCEPT ![s] = "predict"]
       ELSE /\ pc' = [pc EXCEPT ![s] = "miss"]
            /\ UNCHANGED <<model, log>>
    /\ UNCHANGED <<unit, speech, afterFailure, camera, input_tensor,
                   app, keySource, cache, lock, builds, crop, uploaded, toggle,
                   session_state, local, prediction, err>>

\* A miss that takes the compute lock and builds without a second read.
CacheMissNoRecheck(s) ==
    /\ pc[s] = "miss"
    /\ lock = 0
    /\ lock' = s
    /\ pc' = [pc EXCEPT ![s] = "construct"]
    /\ UNCHANGED <<unit, speech, afterFailure, camera, input_tensor,
                   app, keySource, cache, builds, crop, uploaded, toggle,
                   session_state, local, prediction, err, model, log>>

\* On a miss the caller takes the compute lock and reads the store again:
\* another run may have stored the value while this one waited.
CacheMiss(s) ==
    /\ pc[s] = "miss"
    /\ lock = 0
    /\ IF CacheRead(cache, CurKey(s)) # NoModel
       THEN /\ model' = [model EXCEPT ![s] = CacheRead(cache, CurKey(s))]
            /\ log' = [log EXCEPT ![s] = Append(@, "cache_hit_locked")]
            /\ pc' = [pc EXCEPT ![s] = "predict"]
            /\ UNCHANGED lock
       ELSE /\ lock' = s
            /\ pc' = [pc EXCEPT ![s] = "construct"]
            /\ UNCHANGED <<model, log>>
    /\ UNCHANGED <<unit, speech, afterFailure, camera, input_tensor,
                   app, keySource, cache, builds, crop, uploaded, toggle,
                   session_state, local, prediction, err>>

\* Lines 592-612: resnet50(weights=None) with its head replaced.  A fresh
\* nn.Module is in training mode.
Construct(s) ==
    /\ pc[s] = "construct"
    /\ LET head == MakeHead(CurFcType(s), CurNumClasses(s))
       IN IF head = NoHead
          THEN Raise(s, "ValueError")
          ELSE /\ local' = [local EXCEPT ![s] =
                        [key |-> CurKey(s), fc |-> head, loaded |-> FALSE,
                         training |-> TRUE, stats |-> 0, n |-> 0]]
               /\ pc' = [pc EXCEPT ![s] = "load_weights"]
               /\ UNCHANGED <<err, log, lock>>
    /\ UNCHANGED <<unit, speech, afterFailure, camera, input_tensor,
                   app, keySource, cache, builds, crop, uploaded, toggle,
                   session_state, model, prediction>>

\* A load that leaves the half-built model in the store when it fails.
LoadWeightsKeepsPartial(s) ==
    /\ pc[s] = "load_weights"
    /\ \E state_dict \in FileContents :
          IF ~state_dict.exists \/ ~StateDictMatches(local[s].fc, state_dict)
          THEN /\ Raise(s, IF state_dict.exists THEN "RuntimeError" ELSE "FileNotFoundError")
               /\ cache' = [cache EXCEPT ![local[s].key] = local[s]]
          ELSE /\ local' = [local EXCEPT ![s].loaded = TRUE]
               /\ pc' = [pc EXCEPT ![s] = "to_eval"]
               /\ UNCHANGED <<err, log, lock, cache>>
    /\ UNCHANGED <<unit, speech, afterFailure, camera, input_tensor,
                   app, keySource, builds, crop, uploaded, toggle,
                   session_state, model, prediction>>

\* Lines 614-615: torch.load of the weights file, then load_state_dict.
LoadWeights(s) ==
    /\ pc[s] = "load_weights"
    /\ \E state_dict \in FileContents :
          IF ~state_dict.exists
          THEN Raise(s, "FileNotFoundError")
          ELSE IF ~StateDictMatches(local[s].fc, state_dict)
          THEN Raise(s, "RuntimeError")
          ELSE /\ local' = [local EXCEPT ![s].loaded = TRUE]
               /\ pc' = [pc EXCEPT ![s] = "to_eval"]
               /\ UNCHANGED <<err, log, lock>>
    /\ UNCHANGED <<unit, speech, afterFailure, camera, input_tensor,
                   app, keySource, cache, builds, crop, uploaded, toggle,
                   session_state, model, prediction>>

\* A builder that leaves out model.eval().
ToEvalSkipped(s) ==
    /\ pc[s] = "to_eval"
    /\ pc' = [pc EXCEPT ![s] = "store"]
    /\ UNCHANGED <<unit, speech, afterFailure, camera, input_tensor,
                   app, keySource, cache, lock, builds, crop, uploaded, toggle,
                   session_state, local, model, prediction, log, err>>

\* Lines 616-617: model.to(device); model.eval()
ToEval(s) ==
    /\ pc[s] = "to_eval"
    /\ local' = [local EXCEPT ![s].training = FALSE]
    /\ pc' = [pc EXCEPT ![s] = "store"]
    /\ UNCHANGED <<unit, speech, afterFailure, camera, input_tensor,
                   app, keySource, cache, lock, builds, crop, uploaded, toggle,
                   session_state, model, prediction, log, err>>

\* Line 618 and the return through the cache: the value is written to the
\* store, the lock is released and the caller gets the value.
Store(s) ==
    /\ pc[s] = "store"
    /\ LET k == local[s].key
           m == [local[s] EXCEPT !.n = builds[k] + 1]
       IN /\ cache' = [cache EXCEPT ![k] = m]
          /\ builds' = [builds EXCEPT ![k] = @ + 1]
          /\ model' = [model EXCEPT ![s] = m]
    /\ lock' = 0
    /\ local' = [local EXCEPT ![s] = NoModel]
    /\ log' = [log EXCEPT ![s] = Append(@, "build")]
    /\ pc' = [pc EXCEPT ![s] = "predict"]
    /\ UNCHANGED <<unit, speech, afterFailure, camera, input_tensor,
                   app, keySource, crop, uploaded, toggle, session_state,
                   prediction, err>>

\* Lines 635-637 (part_000: 59): the file uploader comes first; the camera
\* input is created only when the uploader holds no file, and only in the
\* multi-crop script.
InputImage(s) ==
    IF uploaded[s] # NoImage THEN uploaded[s]
    ELSE IF app = "multi" THEN camera[s] ELSE NoImage

\* The input widgets the run creates besides the uploader.
Widgets(s) == IF app = "multi" /\ uploaded[s] = NoImage THEN <<"camera_input">> ELSE <<>>

\* A forward pass in training mode updates the running statistics of the
\* batch-norm layers, torch.no_grad() or not; in evaluation mode it writes
\* nothing.  The variant below updates them in either mode.
AfterForwardAlways(m) == [m EXCEPT !.stats = (@ + 1) % 2]

AfterForward(m) == IF m.training THEN [m EXCEPT !.stats = (@ + 1) % 2] ELSE m

\* Lines 635-651 (part_000: 59-76): with an image, convert, transform, forward
\* pass, arg-max, label.  Without one the multi-crop script goes on to the
\* sidebar and the single-crop script is over.  The model object is the one
\* in the store, so what the forward pass does to it is done to the store.
\* A camera widget that is not created in a run loses its value.
Predict(s) ==
    /\ pc[s] = "predict"
    /\ camera' = [camera EXCEPT ![s] = IF uploaded[s] # NoImage THEN NoImage ELSE @]
    /\ IF InputImage(s) = NoImage
       THEN /\ pc' = [pc EXCEPT ![s] = IF app = "multi" THEN "sidebar" ELSE "idle"]
            /\ log' = [log EXCEPT ![s] = @ \o Widgets(s)]
            /\ UNCHANGED <<prediction, err, lock, local, input_tensor, cache, model>>
       ELSE LET image == ConvertRGB(InputImage(s))
                tensor == Transform(image)
                output == Forward(model[s], tensor)
                label == Classify(CurLabels(s), output)
            IN /\ input_tensor' = [input_tensor EXCEPT ![s] = tensor]
               /\ model' = [model EXCEPT ![s] = AfterForward(@)]
               /\ cache' = [cache EXCEPT ![model[s].key] = AfterForward(model[s])]
               /\ IF label = None
                  THEN Raise(s, "IndexError") /\ UNCHANGED prediction
                  ELSE /\ prediction' = [prediction EXCEPT ![s] = label]
                       /\ log' = [log EXCEPT ![s] = @ \o Widgets(s) \o
                                    <<"image", "convert", "transform", "forward", "success">>]
                       /\ pc' = [pc EXCEPT ![s] = "remedy"]
                       /\ UNCHANGED <<err, lock, local>>
    /\ UNCHANGED <<unit, speech, afterFailure, app, keySource, builds, crop, uploaded, toggle,
                   session_state>>

(***************************************************************************)
(* Remedy resolver and rendering.                                          *)
(***************************************************************************)
\* name in remedy_data: key membership for a dict, substring test for a str
\* (keys of a str record lists the field names its text contains).
In(name, remedy_data) == name \in remedy_data.keys

\* Lines 659-716: each optional field is asked for with "in" and then read
\* by subscript; the two Fertilizer fields sit behind isinstance(.., dict).
\* A subscript by name on a str is a TypeError.
Render(remedy_data) ==
    LET read == {f \in TextFields \cup ListFields :
                    /\ In(f, remedy_data)
                    /\ f \in {"Fertilizer", "Fertilizer_Calendar"}
                          => remedy_data.shape = "dict"}
    IN IF remedy_data.shape # "dict" /\ read # {}
       THEN [error |-> "TypeError", shown |-> {}]
       ELSE [error |-> None, shown |-> {f \in read : f \notin remedy_data.empty}]

\* Lines 655-718: membership test, then rendering, else the warning.
ResolveRemedy(static_remedies, label) ==
    IF label \in DOMAIN static_remedies
    THEN LET r == Render(static_remedies[label])
         IN IF r.error # None THEN [error |-> r.error, shown |-> "exception"]
            ELSE [error |-> None, shown |-> "remedy"]
    ELSE [error |-> None, shown |-> "no_remedy"]

\* part_000 lines 109-115: the table is read by subscript, and so are the
\* four fields of the entry.
GrapeFields == {"cause", "remedy", "fertilizer", "tips"}

ResolveInfo(info_table, label) ==
    IF label \notin DOMAIN info_table
    THEN [error |-> "KeyError", shown |-> "exception"]
    ELSE IF info_table[label].shape # "dict"
    THEN [error |-> "TypeError", shown |-> "exception"]
    ELSE IF ~(GrapeFields \subseteq info_table[label].keys)
    THEN [error |-> "KeyError", shown |-> "exception"]
    ELSE [error |-> None, shown |-> "remedy"]

Remedy(s) ==
    /\ pc[s] = "remedy"
    /\ LET r == IF app = "multi" THEN ResolveRemedy(CurRemedies(s), prediction[s])
                ELSE ResolveInfo(CurRemedies(s), prediction[s])
       IN IF r.error # None
          THEN Raise(s, r.error)
          ELSE /\ log' = [log EXCEPT ![s] = Append(@, r.shown)]
               /\ pc' = [pc EXCEPT ![s] = IF app = "multi" THEN "sidebar" ELSE "advice"]
               /\ UNCHANGED <<err, lock, local>>
    /\ UNCHANGED <<unit, speech, afterFailure, camera, input_tensor,
                   app, keySource, cache, builds, crop, uploaded, toggle,
                   session_state, model, prediction>>

(***************************************************************************)
(* part_000 lines 121-154: the OpenRouter request.  The key in the file    *)
(* starts with "sk-", so the request is always sent.  requests.post either *)
(* returns a response or raises; nothing around it catches.                *)
(***************************************************************************)
PostOutcomes == {"200", "non200", "ConnectionError", "no_response"}

\* requests.post is called without timeout=, and requests then waits for the
\* response without limit: against a server that accepts the request and
\* never answers the call does not return and the run stays inside it.
Advice(s) ==
    /\ pc[s] = "advice"
    /\ \E outcome \in PostOutcomes :
          CASE outcome = "ConnectionError" ->
               /\ pc' = [pc EXCEPT ![s] = "idle"]
               /\ err' = [err EXCEPT ![s] = "ConnectionError"]
               /\ log' = [log EXCEPT ![s] = @ \o <<"ai_request", "exception">>]
            [] outcome = "no_response" ->
               /\ pc' = [pc EXCEPT ![s] = "post"]
               /\ log' = [log EXCEPT ![s] = Append(@, "ai_request")]
               /\ UNCHANGED err
            [] OTHER ->
               /\ pc' = [pc EXCEPT ![s] = "idle"]
               /\ log' = [log EXCEPT ![s] = @ \o
                            <<"ai_request", IF outcome = "200" THEN "ai_answer" ELSE "ai_warning">>]
               /\ UNCHANGED err
    /\ UNCHANGED <<unit, speech, afterFailure, camera, input_tensor,
                   app, keySource, cache, lock, builds, crop, uploaded, toggle,
                   session_state, local, model, prediction>>

(***************************************************************************)
(* multi_crop_app.py lines 664-671: the colour of the severity line.       *)
(* A text is a sequence of characters; the registry and the crafted texts  *)
(* are written as sequences of words, which Chars spells out.              *)
(***************************************************************************)
Spell(word) ==
    CASE word = "High" -> <<"H", "i", "g", "h">>
      [] word = "high" -> <<"h", "i", "g", "h">>
      [] word = "HIGH" -> <<"H", "I", "G", "H">>
      [] word = "Medium" -> <<"M", "e", "d", "i", "u", "m">>
      [] word = "medium" -> <<"m", "e", "d", "i", "u", "m">>
      [] word = "Low" -> <<"L", "o", "w">>
      [] word = "to" -> <<"t", "o">>
      [] word = "N/A" -> <<"N", "/", "A">>
      [] word = "Varies" -> <<"V", "a", "r", "i", "e", "s">>
      [] word = "(Low" -> <<"(", "L", "o", "w">>
      [] word = "Medium)" -> <<"M", "e", "d", "i", "u", "m", ")">>
      [] word = "Can" -> <<"C", "a", "n">>
      [] word = " " -> <<" ">>
      [] word = ":" -> <<":">>

RECURSIVE Chars(_)
Chars(words) == IF words = <<>> THEN <<>> ELSE Spell(Head(words)) \o Chars(Tail(words))

UpperCase == <<"A", "B", "C", "D", "E", "F", "G", "H", "I", "J", "K", "L", "M", "N", "O", "P", "Q", "R", "S", "T", "U", "V", "W", "X", "Y", "Z">>
LowerCase == <<"a", "b", "c", "d", "e", "f", "g", "h", "i", "j", "k", "l", "m", "n", "o", "p", "q", "r", "s", "t", "u", "v", "w", "x", "y", "z">>

\* str.lower() on one character.
LowerChar(ch) ==
    IF \E i \in DOMAIN UpperCase : UpperCase[i] = ch
    THEN LowerCase[CHOOSE i \in DOMAIN UpperCase : UpperCase[i] = ch]
    ELSE ch

Lower(text) == [i \in DOMAIN text |-> LowerChar(text[i])]

\* text.split(':')[0]: the characters before the first colon, all of them
\* when there is none.
BeforeColon(text) ==
    LET colons == {i \in DOMAIN text : text[i] = ":"}
    IN IF colons = {} THEN text
       ELSE SubSeq(text, 1, (CHOOSE i \in colons : \A j \in colons : i <= j) - 1)

\* str.strip(): without the white space at either end.
Strip(text) ==
    LET inked == {i \in DOMAIN text : text[i] # " "}
    IN IF inked = {} THEN <<>>
       ELSE SubSeq(text, CHOOSE i \in inked : \A j \in inked : i <= j,
                         CHOOSE i \in inked : \A j \in inked : i >= j)

\* sub in text, for strings.
Contains(text, sub) ==
    \E i \in 0..(Len(text) - Len(sub)) : SubSeq(text, i + 1, i + Len(sub)) = sub

SeverityColorMediumFirst(text) ==
    LET severity_level == Lower(Strip(BeforeColon(text)))
    IN IF Contains(severity_level, Chars(<<"medium">>)) THEN "orange"
       ELSE IF Contains(severity_level, Chars(<<"high">>)) THEN "red"
       ELSE "green"

\* Lines 665-670.
SeverityColor(text) ==
    LET severity_level == Lower(Strip(BeforeColon(text)))
    IN IF Contains(severity_level, Chars(<<"high">>)) THEN "red"
       ELSE IF Contains(severity_level, Chars(<<"medium">>)) THEN "orange"
       ELSE "green"

\* The severity text of a registry entry: its words up to the colon, then,
\* unless it is N/A, the colon and the start of the description.
RECURSIVE Spaced(_)
Spaced(words) ==
    IF Len(words) <= 1 THEN words
    ELSE <<Head(words), " ">> \o Spaced(Tail(words))

SeverityWords(entry) ==
    IF entry.severity = <<"N/A">> THEN entry.severity
    ELSE Spaced(entry.severity) \o <<":", " ", "Can">>

(***************************************************************************)
(* multi_crop_app.py lines 722-894: the sidebar.                           *)
(***************************************************************************)
ResetIfChangedKeepsHistory(ss, p) ==
    IF ~ss.has_messages \/ ss.last_prediction_for_ai # p
    THEN [has_messages |-> TRUE,
          sidebar_messages |-> ss.sidebar_messages,
          ai_advice_initial_generated |-> FALSE,
          last_prediction_for_ai |-> p,
          sidebar_follow_up_input_value |-> ""]
    ELSE ss

ResetIfChangedFirstRunOnly(ss, p) ==
    IF ~ss.has_messages
    THEN [has_messages |-> TRUE,
          sidebar_messages |-> <<>>,
          ai_advice_initial_generated |-> FALSE,
          last_prediction_for_ai |-> p,
          sidebar_follow_up_input_value |-> ""]
    ELSE ss

\* Lines 825-829: a new prediction (or a first run) resets the chat.
ResetIfChanged(ss, p) ==
    IF ~ss.has_messages \/ ss.last_prediction_for_ai # p
    THEN [has_messages |-> TRUE,
          sidebar_messages |-> <<>>,
          ai_advice_initial_generated |-> FALSE,
          last_prediction_for_ai |-> p,
          sidebar_follow_up_input_value |-> ""]
    ELSE ss

ClearedKeepsHistory(ss) ==
    [ss EXCEPT !.ai_advice_initial_generated = FALSE,
               !.last_prediction_for_ai = None,
               !.sidebar_follow_up_input_value = ""]

\* Lines 881-884 and 888-891.
Cleared(ss) ==
    [ss EXCEPT !.ai_advice_initial_generated = FALSE,
               !.sidebar_messages = <<>>,
               !.last_prediction_for_ai = None,
               !.sidebar_follow_up_input_value = ""]

\* An entry of sidebar_messages.  The field about is the prediction the
\* conversation was about when the entry was appended; the script stores it
\* once for the whole history, in last_prediction_for_ai.
Message(role, text, p) == [role |-> role, text |-> text, about |-> p]

\* Lines 838-857: the reply to the prompt built from the prediction.
InitialReply(p) == Message("model", "initial", p)

InitialGeneratedNever(ss) == FALSE

\* Line 834: the initial request is issued only while the flag is unset.
InitialGenerated(ss) == ss.ai_advice_initial_generated

StartSpeechJoined(s) == speech

\* Lines 861-868: the history is displayed entry by entry; the run started
\* by a press on a Listen button finds that button True and starts a thread
\* on speak_text without joining it.
StartSpeech(s) ==
    IF log[s] # <<>> /\ log[s][1] = "listen"
    THEN [speech EXCEPT !.running = @ + 1]
    ELSE speech

\* Lines 848-858: chat.send_message either returns or raises.
GeminiOutcomes == {"ok", "exception"}

Sidebar(s) ==
    /\ pc[s] = "sidebar"
    /\ CASE keySource = "nofile" ->
            \* st.secrets[...] without any secrets file raises
            \* StreamlitSecretNotFoundError (a FileNotFoundError), which
            \* except KeyError lets through.
            /\ Raise(s, "StreamlitSecretNotFoundError")
            /\ UNCHANGED <<speech, toggle, session_state>>
         [] keySource = "nokey" ->
            /\ log' = [log EXCEPT ![s] = @ \o <<"key_warning", "info_no_key">>]
            /\ pc' = [pc EXCEPT ![s] = "idle"]
            /\ toggle' = [toggle EXCEPT ![s] = FALSE]
            /\ UNCHANGED <<speech, session_state, err, lock, local>>
         [] OTHER ->
            LET ss1 == ResetIfChanged(session_state[s], prediction[s])
            IN IF prediction[s] = None
               THEN /\ session_state' = [session_state EXCEPT ![s] = Cleared(ss1)]
                    /\ log' = [log EXCEPT ![s] = Append(@, "info_no_prediction")]
                    /\ toggle' = [toggle EXCEPT ![s] = FALSE]
                    /\ pc' = [pc EXCEPT ![s] = "idle"]
                    /\ UNCHANGED <<speech, err, lock, local>>
               ELSE IF ~toggle[s]
               THEN /\ session_state' = [session_state EXCEPT ![s] = Cleared(ss1)]
                    /\ log' = [log EXCEPT ![s] = @ \o <<"toggle", "info_toggle">>]
                    /\ pc' = [pc EXCEPT ![s] = "idle"]
                    /\ UNCHANGED <<speech, toggle, err, lock, local>>
               ELSE IF InitialGenerated(ss1)
               THEN /\ session_state' = [session_state EXCEPT ![s] = ss1]
                    /\ log' = [log EXCEPT ![s] = @ \o <<"toggle", "chat", "follow_up_input">>]
                    /\ pc' = [pc EXCEPT ![s] = "idle"]
                    /\ speech' = StartSpeech(s)
                    /\ UNCHANGED <<toggle, err, lock, local>>
               ELSE \E outcome \in GeminiOutcomes :
                    /\ session_state' = [session_state EXCEPT ![s] =
                          IF outcome = "ok"
                          THEN [ss1 EXCEPT !.sidebar_messages = Append(@, InitialReply(prediction[s])),
                                           !.ai_advice_initial_generated = TRUE]
                          ELSE [ss1 EXCEPT !.ai_advice_initial_generated = FALSE]]
                    /\ log' = [log EXCEPT ![s] = @ \o
                          (IF outcome = "ok" THEN <<"toggle", "ai_request">>
                           ELSE <<"toggle", "ai_request", "ai_error">>)
                          \o <<"chat", "follow_up_input">>]
                    /\ pc' = [pc EXCEPT ![s] = "idle"]
                    /\ speech' = StartSpeech(s)
                    /\ UNCHANGED <<toggle, err, lock, local>>
    /\ UNCHANGED <<unit, afterFailure, camera, input_tensor,
                   app, keySource, cache, builds, crop, uploaded, model, prediction>>

(***************************************************************************)
(* multi_crop_app.py lines 784-815: the on_change callback of the          *)
(* follow-up input.  Streamlit stores the new widget value under the       *)
(* widget's key, runs the callback, then reruns the script.                *)
(***************************************************************************)
\* What the user can type; the empty string is a cleared box.
Questions == {"question"}

Apology == "Sorry, I couldn't generate a response at this time."

\* Lines 790-793: the history handed to start_chat, the entries before the
\* one just appended that have a role the API knows.
GeminiHistory(messages) ==
    SelectSeq(SubSeq(messages, 1, Len(messages) - 1),
              LAMBDA msg : msg.role \in {"user", "model"})

handle_follow_up_submission_no_apology(ss, outcome) ==
    LET user_follow_up_q == ss.sidebar_follow_up_input_value
        asked == Append(ss.sidebar_messages,
                        Message("user", user_follow_up_q, ss.last_prediction_for_ai))
    IN IF user_follow_up_q = ""
       THEN [state |-> ss, sent |-> <<>>, requests |-> 0, error |-> None]
       ELSE IF outcome = "ok"
       THEN [state |-> [ss EXCEPT
                          !.sidebar_messages =
                              Append(asked, Message("model", "reply", ss.last_prediction_for_ai)),
                          !.sidebar_follow_up_input_value = ""],
             sent |-> GeminiHistory(asked), requests |-> 1, error |-> None]
       ELSE [state |-> [ss EXCEPT !.sidebar_messages = asked],
             sent |-> GeminiHistory(asked), requests |-> 1, error |-> None]

handle_follow_up_submission_always_clears(ss, outcome) ==
    LET user_follow_up_q == ss.sidebar_follow_up_input_value
        asked == Append(ss.sidebar_messages,
                        Message("user", user_follow_up_q, ss.last_prediction_for_ai))
    IN IF user_follow_up_q = ""
       THEN [state |-> ss, sent |-> <<>>, requests |-> 0, error |-> None]
       ELSE [state |-> [ss EXCEPT
                          !.sidebar_messages =
                              Append(asked, Message("model",
                                                    IF outcome = "ok" THEN "reply" ELSE Apology,
                                                    ss.last_prediction_for_ai)),
                          !.sidebar_follow_up_input_value = ""],
             sent |-> GeminiHistory(asked), requests |-> 1, error |-> None]

\* The handler applied to the session state ss, the AI call ending with
\* outcome.  The result holds the session state it leaves, the history it
\* sent (sent), the number of AI calls it made, and the exception that
\* leaves it, if any.
handle_follow_up_submission(ss, outcome) ==
    LET user_follow_up_q == ss.sidebar_follow_up_input_value
        asked == Append(ss.sidebar_messages,
                        Message("user", user_follow_up_q, ss.last_prediction_for_ai))
    IN IF user_follow_up_q = ""
       THEN [state |-> ss, sent |-> <<>>, requests |-> 0, error |-> None]
       ELSE IF ~ss.has_messages
       THEN \* line 787 on a session without sidebar_messages
            [state |-> ss, sent |-> <<>>, requests |-> 0, error |-> "AttributeError"]
       ELSE IF outcome = "ok"
       THEN [state |-> [ss EXCEPT
                          !.sidebar_messages =
                              Append(asked, Message("model", "reply", ss.last_prediction_for_ai)),
                          !.sidebar_follow_up_input_value = ""],
             sent |-> GeminiHistory(asked), requests |-> 1, error |-> None]
       ELSE [state |-> [ss EXCEPT
                          !.sidebar_messages =
                              Append(asked, Message("model", Apology, ss.last_prediction_for_ai))],
             sent |-> GeminiHistory(asked), requests |-> 1, error |-> None]

\* A longest history the model follows.
MaxChat == 3

\* A run that starts after a callback or a pressed button has acted.
StartRunAfter(s, events) ==
    /\ pc' = [pc EXCEPT ![s] = FirstStep]
    /\ model' = [model EXCEPT ![s] = NoModel]
    /\ prediction' = [prediction EXCEPT ![s] = None]
    /\ log' = [log EXCEPT ![s] = events]
    /\ err' = [err EXCEPT ![s] = None]
    /\ input_tensor' = [input_tensor EXCEPT ![s] = NoTensor]

\* Lines 872-877: the user changes the follow-up input, which the last run
\* rendered, to q.
SubmitFollowUp(s, q) ==
    /\ pc[s] = "idle"
    /\ "follow_up_input" \in Range(log[s])
    /\ q # session_state[s].sidebar_follow_up_input_value
    /\ q # "" => Len(session_state[s].sidebar_messages) + 2 <= MaxChat
    /\ \E outcome \in GeminiOutcomes :
          LET r == handle_follow_up_submission(
                       [session_state[s] EXCEPT !.sidebar_follow_up_input_value = q],
                       outcome)
          IN /\ session_state' = [session_state EXCEPT ![s] = r.state]
             /\ IF r.error # None
                THEN /\ pc' = [pc EXCEPT ![s] = "idle"]
                     /\ err' = [err EXCEPT ![s] = r.error]
                     /\ log' = [log EXCEPT ![s] = <<"follow_up", "exception">>]
                     /\ UNCHANGED <<model, prediction, input_tensor>>
                ELSE StartRunAfter(s,
                        <<"follow_up">>
                        \o (IF r.requests > 0 THEN <<"follow_up_request">> ELSE <<>>)
                        \o (IF r.requests > 0 /\ outcome # "ok"
                            THEN <<"follow_up_error">> ELSE <<>>))
    /\ afterFailure' = [afterFailure EXCEPT ![s] = FALSE]
    /\ UNCHANGED <<unit, speech, camera, app, keySource, cache, lock, builds, crop, uploaded,
                   toggle, local>>

(***************************************************************************)
(* multi_crop_app.py lines 773-781 and 866-868: text to speech.            *)
(***************************************************************************)
\* The speech threads the model follows at a time.
MaxSpeech == 2

\* Line 867: a press on the Listen button of a displayed model message.
Listen(s) ==
    /\ pc[s] = "idle"
    /\ "chat" \in Range(log[s])
    /\ \E i \in DOMAIN session_state[s].sidebar_messages :
          session_state[s].sidebar_messages[i].role = "model"
    /\ speech.running < MaxSpeech
    /\ StartRunAfter(s, <<"listen">>)
    /\ afterFailure' = [afterFailure EXCEPT ![s] = FALSE]
    /\ UNCHANGED <<unit, speech, camera, app, keySource, cache, lock, builds, crop, uploaded,
                   toggle, session_state, local>>

\* What the engine does with a text: it speaks it, or init, say or
\* runAndWait raises.
EngineOutcomes == {"spoken", "engine_error"}

\* Lines 774-781: speak_text, run by a thread of its own, comes to its end.
speak_text(outcome) ==
    /\ speech.running > 0
    /\ speech' = [running |-> speech.running - 1,
                  warned |-> speech.warned \/ outcome = "engine_error"]
    /\ UNCHANGED <<unit, afterFailure, camera, input_tensor, app, keySource, cache, lock,
                   builds, pc, crop, uploaded, toggle, session_state, local, model,
                   prediction, log, err>>

(***************************************************************************)
(* Specifications.                                                         *)
(***************************************************************************)
\* The steps of a script run; a run takes them by itself, one after the
\* other, once an interaction has started it.
ScriptStep(s) ==
    \/ Lookup(s)
    \/ Load(s)
    \/ CacheMiss(s)
    \/ Construct(s)
    \/ LoadWeights(s)
    \/ ToEval(s)
    \/ Store(s)
    \/ Predict(s)
    \/ Remedy(s)
    \/ Sidebar(s)
    \/ Advice(s)

Step(s) ==
    \/ Connect(s)
    \/ \E c \in Range(CropOptions) : SelectCrop(s, c)
    \/ \E image \in Images \cup {NoImage} : UploadImage(s, image)
    \/ Rerun(s)
    \/ ToggleAdvice(s)
    \/ Lookup(s)
    \/ Load(s)
    \/ CacheMiss(s)
    \/ Construct(s)
    \/ LoadWeights(s)
    \/ ToEval(s)
    \/ Store(s)
    \/ Predict(s)
    \/ Remedy(s)
    \/ Sidebar(s)
    \/ Advice(s)

\* One browser session.
Next == Step(1)

Spec == Init /\ [][Next]_vars

\* Several sessions of the multi-crop app choosing crops at the same time;
\* each script run is a thread of its own, so their steps interleave.
InitConc == Init /\ app = "multi" /\ keySource = "env"

BuildStep(s) ==
    \/ Connect(s)
    \/ \E i \in 1..MaxConcCrops : SelectCrop(s, CropOptions[i])
    \/ Rerun(s)
    \/ Lookup(s)
    \/ Load(s)
    \/ CacheMiss(s)
    \/ Construct(s)
    \/ LoadWeights(s)
    \/ ToEval(s)
    \/ Store(s)
    \/ Predict(s)
    \/ Sidebar(s)

NextConc == \E s \in Sessions : BuildStep(s)

SpecConc == InitConc /\ [][NextConc]_vars

\* One session that uses both input widgets, the uploader and the camera,
\* and switches among the default crop and the MaxConcCrops options after
\* it, which include a crop with a layered head.
InitInput == Init /\ (app = "multi" => keySource = "env")

InputStep(s) ==
    \/ Connect(s)
    \/ \E i \in 1..(MaxConcCrops + 1) : SelectCrop(s, CropOptions[i])
    \/ \E image \in Images \cup {NoImage} : UploadImage(s, image)
    \/ \E image \in CameraImages \cup {NoImage} : Capture(s, image)
    \/ Rerun(s)
    \/ ToggleAdvice(s)
    \/ ScriptStep(s)

NextInput == InputStep(1)

SpecInput == InitInput /\ [][NextInput]_vars

\* Several sessions of the multi-crop app on the default crop, each with
\* its own upload of an RGB image, all served by the one stored model.
InitShare == Init /\ app = "multi" /\ keySource = "nokey"

ShareStep(s) ==
    \/ Connect(s)
    \/ \E image \in {x \in Images : x.mode = "RGB"} \cup {NoImage} : UploadImage(s, image)
    \/ Rerun(s)
    \/ Lookup(s)
    \/ Load(s)
    \/ CacheMiss(s)
    \/ Construct(s)
    \/ LoadWeights(s)
    \/ ToEval(s)
    \/ Store(s)
    \/ Predict(s)
    \/ Remedy(s)
    \/ Sidebar(s)

NextShare == \E s \in Sessions : ShareStep(s)

SpecShare == InitShare /\ [][NextShare]_vars

\* One session of the multi-crop app, with an API key or without, which
\* chats in the sidebar: it switches between the first MaxConcCrops crops, uploads RGB
\* images, flips the advice toggle, submits follow-up questions and presses
\* Listen buttons, while the speech threads of the process run on.
InitChat == Init /\ app = "multi" /\ keySource \in {"env", "nokey"}

ChatStep(s) ==
    \/ Connect(s)
    \/ \E i \in 1..MaxConcCrops : SelectCrop(s, CropOptions[i])
    \/ \E image \in {x \in Images : x.mode = "RGB"} \cup {NoImage} : UploadImage(s, image)
    \/ Rerun(s)
    \/ ToggleAdvice(s)
    \/ \E q \in Questions \cup {""} : SubmitFollowUp(s, q)
    \/ Listen(s)
    \/ Lookup(s)
    \/ Load(s)
    \/ CacheMiss(s)
    \/ Construct(s)
    \/ LoadWeights(s)
    \/ ToEval(s)
    \/ Store(s)
    \/ Predict(s)
    \/ Remedy(s)
    \/ Sidebar(s)

NextChat ==
    \/ ChatStep(1)
    \/ \E outcome \in EngineOutcomes : speak_text(outcome)

SpecChat == InitChat /\ [][NextChat]_vars

\* The single-crop app served to one session.  A script run is a thread that
\* runs on until it returns, raises or blocks, so its steps are taken as
\* long as one is possible.
InitSingle == Init /\ app = "single"

SingleScript(s) ==
    \/ Load(s)
    \/ CacheMiss(s)
    \/ Construct(s)
    \/ LoadWeights(s)
    \/ ToEval(s)
    \/ Store(s)
    \/ Predict(s)
    \/ Remedy(s)
    \/ Advice(s)

NextSingle ==
    \/ Connect(1)
    \/ \E image \in Images \cup {NoImage} : UploadImage(1, image)
    \/ Rerun(1)
    \/ SingleScript(1)

SpecSingle == InitSingle /\ [][NextSingle]_vars /\ WF_vars(SingleScript(1))

(***************************************************************************)
(* The script's functions on crafted inputs: a registry lookup of any crop *)
(* id, the arg-max of any score vector, the remedy lookup in a table that  *)
(* lacks an entry, the rendering of a remedy of any shape.                 *)
(***************************************************************************)
\* Crafted score vectors hold scores 0..MaxScore.
MaxScore == 2
\* Crafted structured remedies hold up to MaxFields of the optional fields.
MaxFields == 2

appVars == <<app, keySource, cache, lock, builds, pc, crop, uploaded, toggle,
             session_state, local, model, prediction, log, err, camera, input_tensor,
             afterFailure, speech>>

Pending == [error |-> None, value |-> "pending"]

\* A crop id outside the registry.
CropIds == Range(CropOptions) \cup {"Wheat"}

LabelLists == {model_info[c].labels : c \in DOMAIN model_info} \cup {class_names}

\* The remedy table of a crop with the entry of one label left out.
TableWithout(table, missing) == [l \in DOMAIN table \ {missing} |-> table[l]]

RemedyShapes ==
    {[shape |-> "dict", keys |-> k, empty |-> e, severity |-> <<"High">>] :
        k \in {x \in SUBSET (TextFields \cup ListFields) : Cardinality(x) <= MaxFields},
        e \in SUBSET ListFields}
    \cup
    {[shape |-> "str", keys |-> k, empty |-> {}, severity |-> <<>>] :
        k \in {x \in SUBSET (TextFields \cup ListFields) : Cardinality(x) <= 1}}

UnitInputs ==
    {[fn |-> "lookup", done |-> FALSE, crop_id |-> c, out |-> Pending] : c \in CropIds}
    \cup
    UNION {{[fn |-> "classify", done |-> FALSE, labels |-> l, output |-> o, out |-> Pending] :
              o \in [1..Len(l) -> 0..MaxScore]} : l \in LabelLists}
    \cup
    UNION {{[fn |-> "remedy", done |-> FALSE, script |-> a, crop_id |-> c,
             missing |-> m, label |-> l, out |-> Pending] :
              a \in (IF c = "Grapes" THEN {"multi", "single"} ELSE {"multi"}),
              m \in Range(model_info[c].labels) \cup {None},
              l \in Range(model_info[c].labels)} : c \in DOMAIN model_info}
    \cup
    {[fn |-> "render", done |-> FALSE, remedy_data |-> r, out |-> Pending] :
        r \in {x \in RemedyShapes : x.empty \subseteq x.keys}}

\* The histories the sidebar can hold: pairs of a question and its answer,
\* with the initial advice, if it was ever generated, before one of the
\* pairs or after the last; the flag is set when the initial advice is in.
ChatEntries(p) ==
    {Message("user", q, p) : q \in Questions}
    \cup {Message("model", x, p) : x \in {"initial", "reply", Apology}}

IsHistory(h, p) ==
    LET at == {k \in DOMAIN h : h[k] = InitialReply(p)}
        rest == SelectSeq(h, LAMBDA msg : msg # InitialReply(p))
    IN /\ Cardinality(at) <= 1
       /\ \A k \in at : k % 2 = 1
       /\ Len(rest) % 2 = 0
       /\ \A j \in DOMAIN rest : rest[j].role = (IF j % 2 = 1 THEN "user" ELSE "model")

Histories(p) ==
    {h \in UNION {[1..n -> ChatEntries(p)] : n \in 0..MaxChat} : IsHistory(h, p)}

ChatStates(p) ==
    {[has_messages |-> TRUE,
      sidebar_messages |-> h,
      ai_advice_initial_generated |-> (\E k \in DOMAIN h : h[k] = InitialReply(p)),
      last_prediction_for_ai |-> p,
      sidebar_follow_up_input_value |-> q] :
        h \in Histories(p), q \in Questions \cup {""}}

FollowUpInputs ==
    {[fn |-> "follow_up", done |-> FALSE, ss |-> ss, outcome |-> o, out |-> Pending] :
        ss \in ChatStates(class_names[1]), o \in GeminiOutcomes}

\* Severity texts: those of the registry, and every text of up to
\* MaxWords words that mix the levels, in any case, with blanks and colons.
MaxWords == 3

SeverityVocabulary == {"High", "high", "HIGH", "Medium", "medium", "Low", "to", "N/A", " ", ":"}

SeverityInputs ==
    {[fn |-> "severity", done |-> FALSE, words |-> w, out |-> Pending] :
        w \in UNION {[1..n -> SeverityVocabulary] : n \in 0..MaxWords}
               \cup UNION {{SeverityWords(model_info[c].remedies[l]) :
                               l \in DOMAIN model_info[c].remedies} :
                                   c \in DOMAIN model_info}}

\* Head-type tags handed to the builder: the registry's and two others.
Tags == FcTypes \cup {"custom_sequential_wheat", ""}

BuildInputs ==
    {[fn |-> "build", done |-> FALSE, fc_layer_type |-> tag, num_classes |-> n,
      state_dict |-> f, out |-> Pending] :
        tag \in Tags, n \in 3..MaxFileClasses, f \in FileContents}

InitUnit ==
    /\ InitApp /\ app = "multi" /\ keySource = "env"
    /\ unit \in UnitInputs \cup BuildInputs \cup FollowUpInputs \cup SeverityInputs

ApplyLookup ==
    /\ unit.fn = "lookup" /\ ~unit.done
    /\ unit' = [unit EXCEPT !.done = TRUE,
                            !.out = [error |-> RegistryLookup(unit.crop_id).error,
                                     value |-> "profile"]]
    /\ UNCHANGED appVars

ApplyClassify ==
    /\ unit.fn = "classify" /\ ~unit.done
    /\ LET label == Classify(unit.labels, unit.output)
       IN unit' = [unit EXCEPT !.done = TRUE,
                               !.out = [error |-> IF label = None THEN "IndexError" ELSE None,
                                        value |-> label]]
    /\ UNCHANGED appVars

ApplyRemedy ==
    /\ unit.fn = "remedy" /\ ~unit.done
    /\ LET r == IF unit.script = "multi"
                THEN ResolveRemedy(TableWithout(model_info[unit.crop_id].remedies, unit.missing),
                                   unit.label)
                ELSE ResolveInfo(TableWithout(disease_info, unit.missing), unit.label)
       IN unit' = [unit EXCEPT !.done = TRUE,
                               !.out = [error |-> r.error, value |-> r.shown]]
    /\ UNCHANGED appVars

ApplyRender ==
    /\ unit.fn = "render" /\ ~unit.done
    /\ LET r == Render(unit.remedy_data)
       IN unit' = [unit EXCEPT !.done = TRUE,
                               !.out = [error |-> r.error, value |-> r.shown]]
    /\ UNCHANGED appVars

ApplyBuild ==
    /\ unit.fn = "build" /\ ~unit.done
    /\ LET r == Builder(unit.fc_layer_type, unit.num_classes, unit.state_dict)
       IN unit' = [unit EXCEPT !.done = TRUE,
                               !.out = [error |-> r.error, value |-> r]]
    /\ UNCHANGED appVars

ApplyFollowUp ==
    /\ unit.fn = "follow_up" /\ ~unit.done
    /\ LET r == handle_follow_up_submission(unit.ss, unit.outcome)
       IN unit' = [unit EXCEPT !.done = TRUE,
                               !.out = [error |-> r.error, value |-> r]]
    /\ UNCHANGED appVars

ApplySeverity ==
    /\ unit.fn = "severity" /\ ~unit.done
    /\ unit' = [unit EXCEPT !.done = TRUE,
                            !.out = [error |-> None, value |-> SeverityColor(Chars(unit.words))]]
    /\ UNCHANGED appVars

NextUnit ==
    \/ ApplySeverity
    \/ ApplyLookup
    \/ ApplyClassify
    \/ ApplyRemedy
    \/ ApplyRender
    \/ ApplyBuild
    \/ ApplyFollowUp

SpecUnit == InitUnit /\ [][NextUnit]_vars

(***************************************************************************)
(* Properties.                                                             *)
(***************************************************************************)
BuildPcs == {"construct", "load_weights", "to_eval", "store"}

\* C1: closure.  Whenever a run holds a model, the head's output width is
\* the length of the label list of the run; no run ends in an IndexError;
\* and every prediction is a member of the label list of the run's crop.
C1_Closure ==
    \A s \in Sessions :
        /\ err[s] # "IndexError"
        /\ model[s] # NoModel => OutFeatures(model[s].fc) = Len(CurLabels(s))
        /\ prediction[s] # None => prediction[s] \in Range(CurLabels(s))

\* A run that built its model and predicted the last label of the list.
C1_Witness ==
    \E s \in Sessions :
        /\ "build" \in Range(log[s])
        /\ prediction[s] = CurLabels(s)[Len(CurLabels(s))]

\* C2: cache idempotence.  For every cache key at most one build ever runs
\* to completion, the entry it stored is still the one in the store (never
\* dropped, never replaced), and the model a run holds is that same entry.
C2_CacheIdempotent ==
    /\ \A k \in Keys :
          /\ builds[k] <= 1
          /\ builds[k] = 1 => cache[k] # NoModel /\ cache[k].n = 1 /\ cache[k].key = k
          /\ builds[k] = 0 => cache[k] = NoModel
    /\ \A s \in Sessions : model[s] # NoModel => model[s] = cache[CurKey(s)]

\* A run served from the store while another crop's model is stored too:
\* the crop was built in an earlier run and has been switched back to or
\* rerun.
C2_Witness ==
    \E s \in Sessions :
        /\ "cache_hit" \in Range(log[s])
        /\ model[s] # NoModel
        /\ model[s] = cache[CurKey(s)]
        /\ \E k \in Keys : k # CurKey(s) /\ cache[k] # NoModel

\* C3: concurrent first build.  Under every interleaving of the sessions:
\* whatever is in the store or held by a run is fully built (the head of its
\* key, weights loaded, evaluation mode); a run past the builder call holds
\* the one stored instance of its crop; each key is built at most once; a
\* run fails only on its own weights file; and the compute lock is only
\* ever held by a run that is inside the builder.
C3_ConcurrentBuildSafe ==
    /\ \A k \in Keys :
          /\ builds[k] <= 1
          /\ cache[k] # NoModel =>
                /\ cache[k].key = k
                /\ cache[k].loaded
                /\ ~cache[k].training
                /\ cache[k].fc = MakeHead(k[3], k[2])
    /\ \A s \in Sessions :
          /\ model[s] # NoModel => model[s] = cache[CurKey(s)]
          /\ pc[s] \in {"predict", "remedy", "sidebar"} => model[s] # NoModel
          /\ err[s] \in {None, "FileNotFoundError", "RuntimeError"}
          /\ pc[s] \in BuildPcs <=> lock = s

\* Two sessions on the same crop, one that built the model and one that
\* missed, waited for the lock and then found the model stored.
C3_Witness ==
    \E s1, s2 \in Sessions :
        /\ s1 # s2
        /\ crop[s1] = crop[s2]
        /\ "build" \in Range(log[s1])
        /\ "cache_hit_locked" \in Range(log[s2])
        /\ model[s1] # NoModel
        /\ model[s1] = model[s2]

\* C4: arg-max tie-break.  The label returned for a score vector is the one
\* at the lowest index holding the maximal score.
C4_ArgmaxFirst ==
    (unit.fn = "classify" /\ unit.done) =>
        \E i \in 1..Len(unit.output) :
            /\ unit.out.value = unit.labels[i]
            /\ \A j \in 1..Len(unit.output) : unit.output[j] <= unit.output[i]
            /\ \A j \in 1..(i - 1) : unit.output[j] < unit.output[i]

\* A vector whose maximum sits at two indices, the first of them not the
\* first entry, classified as the label of the first of the two.
C4_Witness ==
    /\ unit.fn = "classify"
    /\ unit.done
    /\ \E i, j \in 1..Len(unit.output) :
          /\ 1 < i /\ i < j
          /\ unit.output[i] = unit.output[j]
          /\ \A k \in 1..Len(unit.output) : unit.output[k] <= unit.output[i]
          /\ \A k \in 1..(i - 1) : unit.output[k] < unit.output[i]
          /\ unit.out.value = unit.labels[i]

C6_RemedyNeverThrows ==
    (unit.fn = "remedy" /\ unit.done /\ unit.missing = None) =>
        /\ unit.out.error = None
        /\ unit.out.value \in {"remedy", "no_remedy"}

\* The direct subscript of the single-crop app on its last class name.
C6_Witness ==
    /\ unit.fn = "remedy"
    /\ unit.done
    /\ unit.missing = None
    /\ unit.script = "single"
    /\ unit.label = class_names[Len(class_names)]
    /\ unit.out.value = "remedy"

C9_AdviceFailureContained ==
    \A s \in Sessions :
        "ai_request" \in Range(log[s]) =>
            /\ err[s] = None
            /\ "success" \in Range(log[s])
            /\ "remedy" \in Range(log[s])

\* C10: with no key in the environment and none in the secret store, no
\* advice request is sent, the sidebar raises nothing, and a finished run
\* has shown the notice that asks for the key.
C10_NoKeyOnlyDisablesAdvice ==
    (app = "multi" /\ keySource \in {"nokey", "nofile"}) =>
        \A s \in Sessions :
            /\ "ai_request" \notin Range(log[s])
            /\ err[s] # "StreamlitSecretNotFoundError"
            /\ (pc[s] = "idle" /\ err[s] = None) => "info_no_key" \in Range(log[s])

\* C11: every advice request ends: a run that has reached the request
\* comes to its end, with an answer, a warning or an error on display.
C11_AdviceCallEnds ==
    \A s \in Sessions : (pc[s] = "advice") ~> (pc[s] = "idle")

\* C12: a run started by an interaction that has nothing to do with the
\* advice, right after a run whose initial advice request failed and with
\* the toggle left on, sends no initial advice request.
C12_NoAutomaticRetry ==
    \A s \in Sessions : afterFailure[s] => "ai_request" \notin Range(log[s])

BuildErrors == {"ValueError", "FileNotFoundError", "RuntimeError"}

\* C13: a failed build leaves no trace.  The weights file is read only
\* after a recognised head was made.  A run that ended in a build error has
\* shown the exception and is over: no step of it is left to take, so
\* nothing happens until the user acts again; nothing was stored for the
\* crop, no build was counted, the lock is free, and the run holds no model,
\* no tensor and no prediction.
C13_BuildFailureLeavesNoTrace ==
    \A s \in Sessions :
        /\ pc[s] = "load_weights" => local[s].fc # NoHead
        /\ err[s] \in BuildErrors =>
              /\ pc[s] = "idle"
              /\ ~ENABLED ScriptStep(s)
              /\ "exception" \in Range(log[s])
              /\ cache[CurKey(s)] = NoModel
              /\ builds[CurKey(s)] = 0
              /\ local[s] = NoModel
              /\ lock = 0
              /\ model[s] = NoModel
              /\ input_tensor[s] = NoTensor
              /\ prediction[s] = None
              /\ Range(log[s]) \cap {"transform", "forward", "success", "remedy"} = {}

\* The build of a crop with a layered head failed on a weights file of
\* another structure while an image was waiting in the uploader.
C13_Witness ==
    \E s \in Sessions :
        /\ err[s] = "RuntimeError"
        /\ app = "multi"
        /\ model_info[crop[s]].fc_type = "custom_sequential_peanut"
        /\ uploaded[s] # NoImage
        /\ pc[s] = "idle"

Distinct(seq) == \A i, j \in DOMAIN seq : i # j => seq[i] # seq[j]

\* C14: registry invariant.  In every row the class count is the length of
\* the label list, the labels are pairwise distinct and the head-type tag
\* is one of the three the builder recognises; the same holds for the class
\* count and the class names of the single-crop app; and no build of a
\* registered crop ends in the builder's ValueError.
C14_RegistryInvariant ==
    /\ \A c \in DOMAIN model_info :
          /\ model_info[c].num_classes = Len(model_info[c].labels)
          /\ Distinct(model_info[c].labels)
          /\ model_info[c].fc_type \in {"single_linear", "custom_sequential_peanut",
                                        "custom_sequential_new_crop"}
          /\ MakeHead(model_info[c].fc_type, model_info[c].num_classes) # NoHead
    /\ DOMAIN model_info = Range(CropOptions)
    /\ NUM_CLASSES = Len(class_names)
    /\ Distinct(class_names)
    /\ \A s \in Sessions :
          /\ err[s] # "ValueError"
          /\ pc[s] \in {"load_weights", "to_eval", "store"} =>
                local[s].fc = MakeHead(CurFcType(s), Len(CurLabels(s)))

\* The builds of both crops with a layered head have run to completion.
C14_Witness ==
    /\ app = "multi"
    /\ cache[KeyOf("Peanut")] # NoModel
    /\ cache[KeyOf("Rice")] # NoModel
    /\ \E s \in Sessions : crop[s] = "Rice" /\ "build" \in Range(log[s])

\* C15: head dispatch.  The single-linear tag gives one dense layer from the
\* feature width to the class count; the peanut tag gives dense to 512,
\* ReLU, dropout 0.3, dense from 512 to the class count; the new-crop tag
\* gives dense to 256, ReLU, dropout 0.4, dense from 256 to the class count;
\* the output width is the class count in each; any other tag gives the
\* ValueError, no head, and the weights file is not read.
C15_HeadDispatch ==
    (unit.fn = "build" /\ unit.done) =>
        LET n == unit.num_classes
            fc == unit.out.value.fc
            dense(i, o) == [layer |-> "Linear", in |-> i, out |-> o, p |-> 0]
            relu == [layer |-> "ReLU", in |-> 0, out |-> 0, p |-> 0]
            drop(tenths) == [layer |-> "Dropout", in |-> 0, out |-> 0, p |-> tenths]
        IN CASE unit.fc_layer_type = "single_linear" ->
                  /\ fc.layers = <<dense(NumFtrs, n)>>
                  /\ ~fc.seq
                  /\ unit.out.error # "ValueError"
             [] unit.fc_layer_type = "custom_sequential_peanut" ->
                  /\ fc.layers = <<dense(NumFtrs, 512), relu, drop(3), dense(512, n)>>
                  /\ fc.seq
                  /\ unit.out.error # "ValueError"
             [] unit.fc_layer_type = "custom_sequential_new_crop" ->
                  /\ fc.layers = <<dense(NumFtrs, 256), relu, drop(4), dense(256, n)>>
                  /\ fc.seq
                  /\ unit.out.error # "ValueError"
             [] OTHER ->
                  /\ unit.out.error = "ValueError"
                  /\ fc = NoHead
                  /\ ~unit.out.value.read

\* The new-crop head built for the largest class count and loaded from a
\* file that holds that structure.
C15_Witness ==
    /\ unit.fn = "build"
    /\ unit.done
    /\ unit.fc_layer_type = "custom_sequential_new_crop"
    /\ unit.num_classes = MaxFileClasses
    /\ unit.out.error = None
    /\ OutFeatures(unit.out.value.fc) = MaxFileClasses

\* C16: evaluation mode.  Whatever the store holds, whatever a run holds
\* and whatever the builder is about to return has its weights loaded and
\* is in evaluation mode, before and after any number of predictions and
\* crop switches; so every forward pass runs on a model in evaluation mode.
C16_EvalMode ==
    /\ \A k \in Keys : cache[k] # NoModel => cache[k].loaded /\ ~cache[k].training
    /\ \A s \in Sessions :
          /\ model[s] # NoModel => model[s].loaded /\ ~model[s].training
          /\ pc[s] = "store" => local[s].loaded /\ ~local[s].training
          /\ "forward" \in Range(log[s]) => model[s] # NoModel /\ ~model[s].training

\* A prediction made on the model with the dropout head, served from the
\* store after a switch to another crop and back.
C16_Witness ==
    \E s \in Sessions :
        /\ app = "multi"
        /\ model_info[crop[s]].fc_type = "custom_sequential_peanut"
        /\ "cache_hit" \in Range(log[s])
        /\ "forward" \in Range(log[s])
        /\ \E k \in Keys : k # CurKey(s) /\ cache[k] # NoModel

\* C17: inference is read-only and repeatable.  A prediction step leaves
\* the store, the build counts and every model a run holds as they were;
\* the label a run holds is the label the inference gives when it is run
\* again on the stored model with the same image; and two sessions on the
\* same crop with the same image hold the same label.
C17_InferenceReadOnly ==
    /\ [][\A s \in Sessions :
             Predict(s) => cache' = cache /\ builds' = builds /\ model' = model]_vars
    /\ [](\A s \in Sessions :
             prediction[s] # None =>
                prediction[s] = Classify(model_info[crop[s]].labels,
                                         Forward(cache[KeyOf(crop[s])],
                                                 Transform(ConvertRGB(InputImage(s))))))
    /\ [](\A s1, s2 \in Sessions :
             (/\ prediction[s1] # None
              /\ prediction[s2] # None
              /\ crop[s1] = crop[s2]
              /\ ConvertRGB(InputImage(s1)) = ConvertRGB(InputImage(s2)))
             => prediction[s1] = prediction[s2])

\* Two sessions hold a label for the same image, one of them from a run
\* that built the model and the other from a rerun served from the store.
C17_Witness ==
    \E s1, s2 \in Sessions :
        /\ s1 # s2
        /\ "build" \in Range(log[s1])
        /\ "cache_hit" \in Range(log[s2])
        /\ uploaded[s1] # NoImage
        /\ uploaded[s1] = uploaded[s2]
        /\ prediction[s1] # None
        /\ prediction[s1] = prediction[s2]

\* C18: the preprocessed tensor is a function of the image only.  Whatever
\* the app, the crop, the input widget and the session's past, the tensor of
\* a run has batch size 1, three channels, 224 by 224 pixels, was normalised
\* with mean (0.485, 0.456, 0.406) and std (0.229, 0.224, 0.225), and
\* carries the content of the image of the run.
C18_TensorOfImageOnly ==
    \A s \in Sessions :
        input_tensor[s] # NoTensor =>
            input_tensor[s] = [shape |-> <<1, 3, 224, 224>>,
                               mean |-> <<485, 456, 406>>,
                               std |-> <<229, 224, 225>>,
                               px |-> InputImage(s).px]

\* A tensor made under a crop other than the default one, in a session
\* whose earlier run had processed an image and asked for advice.
C18_Witness ==
    \E s \in Sessions :
        /\ input_tensor[s] # NoTensor
        /\ crop[s] # CropOptions[1]
        /\ pc[s] = "remedy"
        /\ session_state[s].last_prediction_for_ai # None

Before(seq, a, b) == \E i, j \in DOMAIN seq : i < j /\ seq[i] = a /\ seq[j] = b

\* C19: whatever the mode of the image and whichever widget it came from,
\* the tensor of a run has three channels; a run that ran the network or
\* holds a label has a tensor, made from the image of the run; and the
\* conversion came before the transform and the transform before the
\* forward pass.
C19_RGBBeforeTransform ==
    \A s \in Sessions :
        /\ input_tensor[s] # NoTensor =>
              /\ InputImage(s) # NoImage
              /\ input_tensor[s].shape[2] = 3
              /\ input_tensor[s].px = InputImage(s).px
        /\ ("forward" \in Range(log[s]) \/ prediction[s] # None) =>
              /\ input_tensor[s] # NoTensor
              /\ Before(log[s], "image", "convert")
              /\ Before(log[s], "convert", "transform")
              /\ Before(log[s], "transform", "forward")

\* A label obtained from a camera capture, the uploader being empty.
C19_Witness ==
    \E s \in Sessions :
        /\ uploaded[s] = NoImage
        /\ camera[s] # NoImage
        /\ "camera_input" \in Range(log[s])
        /\ prediction[s] # None
        /\ input_tensor[s].shape[2] = 3

\* The place of a displayed or executed step in the pipeline.
Rank(event) ==
    CASE event = "lookup" -> 1
      [] event \in {"build", "cache_hit", "cache_hit_locked"} -> 2
      [] event \in {"camera_input", "image"} -> 3
      [] event \in {"convert", "transform"} -> 4
      [] event \in {"forward", "success"} -> 5
      [] event \in {"remedy", "no_remedy"} -> 6
      [] event = "exception" -> 8
      [] OTHER -> 7

C21_RemedyCoverage ==
    /\ \A c \in DOMAIN model_info :
          /\ DOMAIN model_info[c].remedies = Range(model_info[c].labels)
          /\ \A l \in Range(model_info[c].labels) :
                /\ Render(model_info[c].remedies[l]).error = None
                /\ Render(model_info[c].remedies[l]).shown # {}
    /\ DOMAIN disease_info = Range(class_names)
    /\ \A l \in Range(class_names) :
          /\ ResolveInfo(disease_info, l).error = None
          /\ GrapeFields \subseteq disease_info[l].keys
    /\ \A s \in Sessions :
          /\ "no_remedy" \notin Range(log[s])
          /\ err[s] \notin {"KeyError", "TypeError"}
          /\ (prediction[s] # None /\ pc[s] \in {"sidebar", "advice", "idle"}) =>
                "remedy" \in Range(log[s])

\* The Potato scenario: an all-grey RGB image gave one of the three Potato
\* labels and its remedy is on display.
C21_Witness ==
    \E s \in Sessions :
        /\ app = "multi"
        /\ crop[s] = "Potato"
        /\ uploaded[s] = [mode |-> "RGB", px |-> 1]
        /\ prediction[s] \in Range(model_info["Potato"].labels)
        /\ "remedy" \in Range(log[s])

(***************************************************************************)
(* The sidebar chat.                                                       *)
(***************************************************************************)
\* The run of session s came to the end of the sidebar block.
SidebarEnd(s) ==
    /\ pc[s] = "idle"
    /\ err[s] = None
    /\ Range(log[s]) \cap {"chat", "info_toggle", "info_no_prediction", "info_no_key"} # {}

\* The entries of a history are all about the prediction p.
AllAbout(messages, p) == \A i \in DOMAIN messages : messages[i].about = p

C23_InitialAdviceOnce ==
    [][\A s \in Sessions :
        /\ (/\ pc[s] = "sidebar"
            /\ session_state[s].ai_advice_initial_generated
            /\ session_state[s].last_prediction_for_ai = prediction[s]
            /\ toggle[s]) =>
               /\ "ai_request" \notin Range(log'[s])
               /\ session_state'[s].ai_advice_initial_generated
               /\ session_state'[s].sidebar_messages = session_state[s].sidebar_messages
        /\ (/\ session_state[s].ai_advice_initial_generated
            /\ ~session_state'[s].ai_advice_initial_generated) =>
               /\ pc[s] = "sidebar"
               /\ session_state[s].last_prediction_for_ai # prediction[s] \/ ~toggle[s]
        /\ (/\ "ai_request" \in Range(log'[s])
            /\ "ai_request" \notin Range(log[s])) =>
               /\ pc[s] = "sidebar"
               /\ keySource \in {"env", "secrets"}
               /\ prediction[s] # None
               /\ toggle[s]]_vars

C23_Witness == \E s \in Sessions : pc[s] = "idle" /\ log[s][1] = "follow_up" /\ "chat" \in Range(log[s]) /\ "ai_request" \notin Range(log[s]) /\ session_state[s].ai_advice_initial_generated /\ Len(session_state[s].sidebar_messages) = 3

\* The four chat fields of a session state are in their cleared state.
IsCleared(ss) ==
    /\ ss.sidebar_messages = <<>>
    /\ ~ss.ai_advice_initial_generated
    /\ ss.last_prediction_for_ai = None
    /\ ss.sidebar_follow_up_input_value = ""

\* The run of session s has executed line 639 and the input widgets.
RanInput(s) == Range(log[s]) \cap {"camera_input", "image"} # {}

C25_FollowUpOneAnswer ==
    (unit.fn = "follow_up" /\ unit.done) =>
        LET before == unit.ss.sidebar_messages
            question == unit.ss.sidebar_follow_up_input_value
            r == unit.out.value
            after == r.state.sidebar_messages
        IN IF question = ""
           THEN r.state = unit.ss /\ r.requests = 0
           ELSE /\ r.requests = 1
                /\ r.sent = before
                /\ Len(after) = Len(before) + 2
                /\ SubSeq(after, 1, Len(before)) = before
                /\ after[Len(before) + 1].role = "user"
                /\ after[Len(before) + 1].text = question
                /\ after[Len(before) + 2].role = "model"
                /\ after[Len(before) + 2].text =
                       (IF unit.outcome = "ok" THEN "reply" ELSE Apology)
                /\ [r.state EXCEPT !.sidebar_messages = before,
                                   !.sidebar_follow_up_input_value = question] = unit.ss

C25_Witness == unit.fn = "follow_up" /\ unit.done /\ unit.outcome = "exception" /\ unit.ss.sidebar_follow_up_input_value # "" /\ Len(unit.ss.sidebar_messages) = 1 /\ Len(unit.out.value.state.sidebar_messages) = 3

\* C26: the shape of the history.  A non-empty history starts with a model
\* entry holding the initial advice, and the roles then alternate user,
\* model: no two model entries are adjacent and no history starts with a
\* user entry.
C26_HistoryShape ==
    \A s \in Sessions :
        LET h == session_state[s].sidebar_messages
        IN h # <<>> =>
              /\ h[1] = InitialReply(session_state[s].last_prediction_for_ai)
              /\ \A i \in DOMAIN h : h[i].role = (IF i % 2 = 1 THEN "model" ELSE "user")

\* The history of session s holds an entry about a label of another crop
\* than the selected one.
ForeignEntry(s) ==
    \E i \in DOMAIN session_state[s].sidebar_messages :
        session_state[s].sidebar_messages[i].about \notin Range(model_info[crop[s]].labels)

FollowUpStep(s) ==
    /\ pc[s] = "idle"
    /\ log'[s] # log[s]
    /\ log'[s] # <<>>
    /\ log'[s][1] = "follow_up"

\* C28: the follow-up input is cleared exactly when the follow-up
\* succeeded.  No exception leaves the handler.  After a call that
\* succeeded the stored input value is the empty string and the reply is
\* the last entry of the history; after a call that failed the stored input
\* value is still the submitted question, which is the entry before the
\* last, and the apology is the last entry.  The run that follows the
\* callback displays the chat with the input value as the handler left it.
C28_InputClearedOnSuccess ==
    /\ [][\A s \in Sessions : FollowUpStep(s) =>
            LET after == session_state'[s].sidebar_messages
                value == session_state'[s].sidebar_follow_up_input_value
            IN /\ err'[s] = None
               /\ "exception" \notin Range(log'[s])
               /\ "follow_up_request" \in Range(log'[s]) =>
                     /\ (value = "") = ("follow_up_error" \notin Range(log'[s]))
                     /\ Len(after) >= 2
                     /\ after[Len(after)].role = "model"
                     /\ after[Len(after) - 1].role = "user"
                     /\ IF "follow_up_error" \in Range(log'[s])
                        THEN /\ after[Len(after)].text = Apology
                             /\ after[Len(after) - 1].text = value
                        ELSE after[Len(after)].text = "reply"]_vars
    /\ [](\A s \in Sessions :
            (/\ SidebarEnd(s)
             /\ log[s][1] = "follow_up"
             /\ "follow_up_request" \in Range(log[s])
             /\ "chat" \in Range(log[s])) =>
                (session_state[s].sidebar_follow_up_input_value = "")
                    = ("follow_up_error" \notin Range(log[s])))

C28_Witness == \E s \in Sessions : SidebarEnd(s) /\ log[s][1] = "follow_up" /\ "follow_up_error" \in Range(log[s]) /\ "chat" \in Range(log[s]) /\ session_state[s].sidebar_follow_up_input_value = "question" /\ session_state[s].sidebar_messages[Len(session_state[s].sidebar_messages)].text = Apology

\* The words of a severity text that stand before its first colon.
LevelWords(words) ==
    LET colons == {i \in DOMAIN words : words[i] = ":"}
    IN IF colons = {} THEN words
       ELSE SubSeq(words, 1, (CHOOSE i \in colons : \A j \in colons : i <= j) - 1)

HighWords == {"High", "high", "HIGH"}

MediumWords == {"Medium", "medium", "Medium)"}

\* C29: the severity colour.  The colour of a severity text is one of red,
\* orange and green: red when the text before the first colon holds the
\* word high in any case, orange when it holds medium in any case and not
\* high, green otherwise; what follows the colon does not count.  So
\* Medium to High is red, Low to Medium is orange and N/A is green.
C29_SeverityColour ==
    (unit.fn = "severity" /\ unit.done) =>
        LET level == LevelWords(unit.words)
            high == \E i \in DOMAIN level : level[i] \in HighWords
            medium == \E i \in DOMAIN level : level[i] \in MediumWords
            color == unit.out.value
        IN /\ color \in {"red", "orange", "green"}
           /\ (color = "red") = high
           /\ (color = "orange") = (~high /\ medium)
           /\ (color = "green") = (~high /\ ~medium)
           /\ level = <<"Medium", " ", "to", " ", "High">> => color = "red"
           /\ level = <<"Low", " ", "to", " ", "Medium">> => color = "orange"
           /\ level = <<"N/A">> => color = "green"

C29_Witness == unit.fn = "severity" /\ unit.done /\ unit.words = SeverityWords(model_info["Grapes"].remedies["ESCA"]) /\ unit.out.value = "red"

(***************************************************************************)
(* Text to speech.                                                         *)
(***************************************************************************)
\* The variables of the sessions and of the model store: all but the speech
\* threads.
sessionVars == <<app, keySource, cache, lock, builds, pc, crop, uploaded, toggle,
                 session_state, local, model, prediction, log, err, camera,
                 input_tensor, afterFailure, unit>>

====
